---- MODULE Spec2Model ----
(***************************************************************************)
(* Model of the provider-agnostic storage core: the in-memory reference    *)
(* adapter (packages/core/src/adapters/memory.ts) and the StorageService   *)
(* that wraps an adapter (packages/core/src/services/storage.ts).          *)
(*                                                                         *)
(* Strings that the code concatenates, splits or compares character by     *)
(* character (bucket names, paths, map keys, file names) are sequences of  *)
(* one-character strings.  ISO timestamps are clock readings (integers):   *)
(* toISOString() is order preserving, so comparing the strings is          *)
(* comparing the readings.  crypto.randomUUID() is a fresh identifier.     *)
(***************************************************************************)
EXTENDS Integers, Sequences, FiniteSets, TLC

VARIABLES
    buckets,   \* InMemoryStorageAdapter.buckets: Map<string, Bucket>, in insertion order
    files,     \* InMemoryStorageAdapter.files: Map<string, StoredFile>, in insertion order
    pending,   \* upload calls suspended at `await file.arrayBuffer()`
    adapter,   \* the adapter variant the service wraps: its capabilities, its optional operations
    clock,     \* the last reading of the system clock
    nextId,    \* number of identifiers minted so far
    last       \* the call that has just completed and its outcome, until the caller takes it

vars == <<buckets, files, pending, adapter, clock, nextId, last>>

----------------------------------------------------------------------------
(* Bounds of the model *)

MaxClock == 1
MaxId == 2
MaxFiles == 2
MaxPending == 1

----------------------------------------------------------------------------
(* Strings *)

Slash == "/"

\* UTF-16 code unit of the characters the model uses (JS compares strings by code unit)
CharCode(c) ==
    CASE c = "/" -> 47
      [] c = "a" -> 97
      [] c = "b" -> 98
      [] c = "c" -> 99

\* a < b on JS strings
RECURSIVE StrLess(_, _)
StrLess(a, b) ==
    IF b = <<>> THEN FALSE
    ELSE IF a = <<>> THEN TRUE
    ELSE IF CharCode(Head(a)) < CharCode(Head(b)) THEN TRUE
    ELSE IF CharCode(Head(a)) > CharCode(Head(b)) THEN FALSE
    ELSE StrLess(Tail(a), Tail(b))

\* s.startsWith(p)
StartsWith(s, p) == Len(p) <= Len(s) /\ SubSeq(s, 1, Len(p)) = p

\* `${bucket}/${path}`
Key(bucket, path) == bucket \o <<Slash>> \o path

\* path.split('/').pop() ?? path : the text after the last '/'
BaseName(path) ==
    LET cuts == {i \in 1..Len(path) : path[i] = Slash}
    IN  IF cuts = {} THEN path
        ELSE LET m == CHOOSE i \in cuts : \A j \in cuts : j <= i
             IN  SubSeq(path, m + 1, Len(path))

\* x ?? d on an optional value (the empty set is undefined, {v} is v)
OrElse(opt, d) == IF opt = {} THEN d ELSE CHOOSE v \in opt : TRUE

----------------------------------------------------------------------------
(* JS Map: a sequence of entries [key, val] with distinct keys, in          *)
(* insertion order                                                          *)

MapHas(m, k) == \E i \in 1..Len(m) : m[i].key = k

MapIndex(m, k) == CHOOSE i \in 1..Len(m) : m[i].key = k

MapGet(m, k) == m[MapIndex(m, k)].val

\* Map.set: an existing key keeps its position, a new key goes last
MapSet(m, k, v) ==
    IF MapHas(m, k)
    THEN [m EXCEPT ![MapIndex(m, k)] = [key |-> k, val |-> v]]
    ELSE Append(m, [key |-> k, val |-> v])

\* Map.delete
MapDelete(m, k) ==
    IF MapHas(m, k)
    THEN LET i == MapIndex(m, k)
         IN  SubSeq(m, 1, i - 1) \o SubSeq(m, i + 1, Len(m))
    ELSE m

MapKeys(m) == {m[i].key : i \in 1..Len(m)}

----------------------------------------------------------------------------
(* Errors: StorageModuleError(code, message, status) *)

Err(code, status) == [code |-> code, status |-> status]
Ok == [code |-> "OK", status |-> 0]

----------------------------------------------------------------------------
(* Inputs the calls are made with *)

BucketNames == {<<"a">>, <<"a", "/", "b">>}
Paths == {<<"c">>, <<"b">>, <<"b", "/", "c">>}

DefaultMimeType == "application/octet-stream"

\* file: File | Blob | Buffer | ArrayBuffer (a File is a Blob)
FileInputs ==
    { [kind |-> "Buffer",      bytes |-> <<1>>,    type |-> ""],
      [kind |-> "ArrayBuffer", bytes |-> <<2, 3>>, type |-> ""],
      [kind |-> "Blob",        bytes |-> <<2, 3>>, type |-> "text/plain"],
      [kind |-> "File",        bytes |-> <<1>>,    type |-> ""] }

IsBlob(file) == file.kind \in {"Blob", "File"}

\* a string option in a condition: absent and the empty string are both falsy
Truthy(opt) == opt # {} /\ opt # {""}

\* options?: UploadOptions  (an absent field is the empty set)
UploadOptionSet ==
    { [contentType |-> {}, upsert |-> {}, metadata |-> {}],
      [contentType |-> {}, upsert |-> {TRUE}, metadata |-> {}],
      [contentType |-> {"image/png"}, upsert |-> {FALSE}, metadata |-> {"m1"}],
      [contentType |-> {"image/png"}, upsert |-> {TRUE}, metadata |-> {"m1"}],
      [contentType |-> {"text/html"}, upsert |-> {}, metadata |-> {}],
      [contentType |-> {""}, upsert |-> {}, metadata |-> {}] }

----------------------------------------------------------------------------
(* InMemoryStorageAdapter: bucket operations.  Each operation is a function *)
(* of the adapter's maps to [err, buckets|files, res].                      *)

\* createBucket, but a name that is taken is given to the new bucket
createBucketOverwrites(bs, name, public, now) ==
    LET bucket == [id |-> name, name |-> name,
                   public |-> OrElse(public, FALSE), createdAt |-> now]
    IN  [err |-> Ok, buckets |-> MapSet(bs, name, bucket), res |-> {bucket}]

createBucket(bs, name, public, now) ==
    IF MapHas(bs, name)
    THEN [err |-> Err("BUCKET_EXISTS", 409), buckets |-> bs, res |-> {}]
    ELSE LET bucket == [id |-> name, name |-> name,
                        public |-> OrElse(public, FALSE), createdAt |-> now]
         IN  [err |-> Ok, buckets |-> MapSet(bs, name, bucket), res |-> {bucket}]

\* getBucket: this.buckets.get(name) ?? null
getBucket(bs, name) == IF MapHas(bs, name) THEN {MapGet(bs, name)} ELSE {}

\* listBuckets: Array.from(this.buckets.values())
listBuckets(bs) == [i \in 1..Len(bs) |-> bs[i].val]

deleteBucket(bs, fs, name) ==
    IF ~MapHas(bs, name)
    THEN [err |-> Err("BUCKET_NOT_FOUND", 404), buckets |-> bs]
    ELSE IF \E key \in MapKeys(fs) : StartsWith(key, name \o <<Slash>>)
    THEN [err |-> Err("BUCKET_NOT_EMPTY", 400), buckets |-> bs]
    ELSE [err |-> Ok, buckets |-> MapDelete(bs, name)]

----------------------------------------------------------------------------
(* InMemoryStorageAdapter: file operations *)

\* uploadCheck, but the object is looked up before the bucket
uploadCheckFileFirst(bs, fs, bucket, path, options) ==
    IF MapHas(fs, Key(bucket, path)) /\ ~OrElse(options.upsert, FALSE)
    THEN Err("FILE_EXISTS", 409)
    ELSE IF ~MapHas(bs, bucket) THEN Err("BUCKET_NOT_FOUND", 404)
    ELSE Ok

\* the checks of upload that run before its await
uploadCheck(bs, fs, bucket, path, options) ==
    IF ~MapHas(bs, bucket) THEN Err("BUCKET_NOT_FOUND", 404)
    ELSE IF MapHas(fs, Key(bucket, path)) /\ ~OrElse(options.upsert, FALSE)
    THEN Err("FILE_EXISTS", 409)
    ELSE Ok

\* Convert to Buffer: a Buffer is kept, the other kinds are copied into one
toBuffer(file) == [i \in 1..Len(file.bytes) |-> file.bytes[i]]

\* Determine content type
uploadMimeType(file, options) ==
    IF ~Truthy(options.contentType) /\ IsBlob(file)
    THEN (IF file.type # "" THEN file.type ELSE OrElse(options.contentType, DefaultMimeType))
    ELSE OrElse(options.contentType, DefaultMimeType)

\* the FileRecord upload builds, from the map as it is when the record is built
\* uploadInfo, but an overwrite starts the record's createdAt anew
uploadInfoResetsCreatedAt(fs, bucket, path, file, options, now, id) ==
    [id |-> id,
     name |-> BaseName(path),
     bucket |-> bucket,
     path |-> path,
     size |-> Len(toBuffer(file)),
     mimeType |-> uploadMimeType(file, options),
     metadata |-> options.metadata,
     createdAt |-> now,
     updatedAt |-> now]

uploadInfo(fs, bucket, path, file, options, now, id) ==
    LET key == Key(bucket, path)
    IN  [id |-> id,
         name |-> BaseName(path),
         bucket |-> bucket,
         path |-> path,
         size |-> Len(toBuffer(file)),
         mimeType |-> uploadMimeType(file, options),
         metadata |-> options.metadata,
         createdAt |-> IF MapHas(fs, key) THEN MapGet(fs, key).info.createdAt ELSE now,
         updatedAt |-> now]

\* uploadStore, but an overwrite keeps the bytes already stored
uploadStoreKeepsBytes(fs, bucket, path, file, options, now, id) ==
    LET key == Key(bucket, path)
        info == uploadInfo(fs, bucket, path, file, options, now, id)
        data == IF MapHas(fs, key) THEN MapGet(fs, key).data ELSE toBuffer(file)
    IN  [err |-> Ok,
         files |-> MapSet(fs, key, [data |-> data, info |-> info]),
         res |-> {info}]

\* the part of upload after the conversion: build the record and store it
uploadStore(fs, bucket, path, file, options, now, id) ==
    LET info == uploadInfo(fs, bucket, path, file, options, now, id)
    IN  [err |-> Ok,
         files |-> MapSet(fs, Key(bucket, path), [data |-> toBuffer(file), info |-> info]),
         res |-> {info}]

\* upload when the conversion does not suspend (Buffer, ArrayBuffer)
upload(bs, fs, bucket, path, file, options, now, id) ==
    LET chk == uploadCheck(bs, fs, bucket, path, options)
    IN  IF chk # Ok THEN [err |-> chk, files |-> fs, res |-> {}]
        ELSE uploadStore(fs, bucket, path, file, options, now, id)

download(fs, bucket, path) ==
    LET key == Key(bucket, path)
    IN  IF ~MapHas(fs, key)
        THEN [err |-> Err("FILE_NOT_FOUND", 404), res |-> {}]
        ELSE [err |-> Ok,
              res |-> {[bytes |-> MapGet(fs, key).data,
                        type |-> MapGet(fs, key).info.mimeType]}]

\* getFileInfo: stored?.info ?? null
getFileInfo(fs, bucket, path) ==
    LET key == Key(bucket, path)
    IN  IF MapHas(fs, key) THEN {MapGet(fs, key).info} ELSE {}

\* delete, but the loop goes on after a missing path and fails at its end
RECURSIVE deleteContinues(_, _, _)
deleteContinues(fs, bucket, paths) ==
    IF paths = <<>> THEN [err |-> Ok, files |-> fs]
    ELSE LET key == Key(bucket, Head(paths))
         IN  IF ~MapHas(fs, key)
             THEN [err |-> Err("FILE_NOT_FOUND", 404),
                   files |-> deleteContinues(fs, bucket, Tail(paths)).files]
             ELSE deleteContinues(MapDelete(fs, key), bucket, Tail(paths))

\* delete: the loop over paths, stopping at the first missing one
RECURSIVE delete(_, _, _)
delete(fs, bucket, paths) ==
    IF paths = <<>> THEN [err |-> Ok, files |-> fs]
    ELSE LET key == Key(bucket, Head(paths))
         IN  IF ~MapHas(fs, key)
             THEN [err |-> Err("FILE_NOT_FOUND", 404), files |-> fs]
             ELSE delete(MapDelete(fs, key), bucket, Tail(paths))

\* move, but the new key is not written
moveRemovesSourceOnly(fs, bucket, fromPath, toPath, now) ==
    LET fromKey == Key(bucket, fromPath)
        toKey == Key(bucket, toPath)
    IN  IF ~MapHas(fs, fromKey)
        THEN [err |-> Err("FILE_NOT_FOUND", 404), files |-> fs, res |-> {}]
        ELSE IF MapHas(fs, toKey)
        THEN [err |-> Err("FILE_EXISTS", 409), files |-> fs, res |-> {}]
        ELSE [err |-> Ok, files |-> MapDelete(fs, fromKey), res |-> {MapGet(fs, fromKey).info}]

\* move, but the old key is not removed
moveKeepsSource(fs, bucket, fromPath, toPath, now) ==
    LET fromKey == Key(bucket, fromPath)
        toKey == Key(bucket, toPath)
    IN  IF ~MapHas(fs, fromKey)
        THEN [err |-> Err("FILE_NOT_FOUND", 404), files |-> fs, res |-> {}]
        ELSE IF MapHas(fs, toKey)
        THEN [err |-> Err("FILE_EXISTS", 409), files |-> fs, res |-> {}]
        ELSE LET stored == MapGet(fs, fromKey)
                 newInfo == [stored.info EXCEPT !.name = BaseName(toPath),
                                                !.path = toPath,
                                                !.updatedAt = now]
             IN  [err |-> Ok,
                  files |-> MapSet(fs, toKey, [data |-> stored.data, info |-> newInfo]),
                  res |-> {newInfo}]

move(fs, bucket, fromPath, toPath, now) ==
    LET fromKey == Key(bucket, fromPath)
        toKey == Key(bucket, toPath)
    IN  IF ~MapHas(fs, fromKey)
        THEN [err |-> Err("FILE_NOT_FOUND", 404), files |-> fs, res |-> {}]
        ELSE IF MapHas(fs, toKey)
        THEN [err |-> Err("FILE_EXISTS", 409), files |-> fs, res |-> {}]
        ELSE LET stored == MapGet(fs, fromKey)
                 newInfo == [stored.info EXCEPT !.name = BaseName(toPath),
                                                !.path = toPath,
                                                !.updatedAt = now]
             IN  [err |-> Ok,
                  files |-> MapDelete(MapSet(fs, toKey, [data |-> stored.data, info |-> newInfo]),
                                      fromKey),
                  res |-> {newInfo}]

\* copy, but the new record keeps the source's createdAt
copyKeepsCreatedAt(fs, bucket, fromPath, toPath, now, id) ==
    LET fromKey == Key(bucket, fromPath)
        toKey == Key(bucket, toPath)
    IN  IF ~MapHas(fs, fromKey)
        THEN [err |-> Err("FILE_NOT_FOUND", 404), files |-> fs, res |-> {}]
        ELSE IF MapHas(fs, toKey)
        THEN [err |-> Err("FILE_EXISTS", 409), files |-> fs, res |-> {}]
        ELSE LET stored == MapGet(fs, fromKey)
                 newInfo == [stored.info EXCEPT !.id = id,
                                                !.name = BaseName(toPath),
                                                !.path = toPath,
                                                !.updatedAt = now]
             IN  [err |-> Ok,
                  files |-> MapSet(fs, toKey, [data |-> stored.data, info |-> newInfo]),
                  res |-> {newInfo}]

\* copy, but an occupied destination is overwritten
copyOverwrites(fs, bucket, fromPath, toPath, now, id) ==
    LET fromKey == Key(bucket, fromPath)
        toKey == Key(bucket, toPath)
    IN  IF ~MapHas(fs, fromKey)
        THEN [err |-> Err("FILE_NOT_FOUND", 404), files |-> fs, res |-> {}]
        ELSE LET stored == MapGet(fs, fromKey)
                 newInfo == [stored.info EXCEPT !.id = id,
                                                !.name = BaseName(toPath),
                                                !.path = toPath,
                                                !.createdAt = now,
                                                !.updatedAt = now]
             IN  [err |-> Ok,
                  files |-> MapSet(fs, toKey, [data |-> stored.data, info |-> newInfo]),
                  res |-> {newInfo}]

copy(fs, bucket, fromPath, toPath, now, id) ==
    LET fromKey == Key(bucket, fromPath)
        toKey == Key(bucket, toPath)
    IN  IF ~MapHas(fs, fromKey)
        THEN [err |-> Err("FILE_NOT_FOUND", 404), files |-> fs, res |-> {}]
        ELSE IF MapHas(fs, toKey)
        THEN [err |-> Err("FILE_EXISTS", 409), files |-> fs, res |-> {}]
        ELSE LET stored == MapGet(fs, fromKey)
                 newInfo == [stored.info EXCEPT !.id = id,
                                                !.name = BaseName(toPath),
                                                !.path = toPath,
                                                !.createdAt = now,
                                                !.updatedAt = now]
             IN  [err |-> Ok,
                  files |-> MapSet(fs, toKey, [data |-> stored.data, info |-> newInfo]),
                  res |-> {newInfo}]

----------------------------------------------------------------------------
(* InMemoryStorageAdapter.list *)

DefaultLimit == 100

\* options?: ListOptions
Prefixes == {{}, {<<"b">>}, {<<"b", "/">>}}
Limits == {{}, {0}, {1}, {2}, {3}}
Offsets == {{}, {0}, {1}, {2}, {3}}
SortColumns == {"name", "created_at", "updated_at"}
SortBys == {{}} \cup {{[column |-> c, order |-> o]} : c \in SortColumns, o \in {"asc", "desc"}}
ListOptionSet == [prefix : Prefixes, limit : Limits, offset : Offsets, sortBy : SortBys]

\* options?.prefix ? `${bucket}/${options.prefix}` : `${bucket}/`
listPrefix(bucket, options) ==
    IF options.prefix # {} /\ OrElse(options.prefix, <<>>) # <<>>
    THEN Key(bucket, OrElse(options.prefix, <<>>))
    ELSE bucket \o <<Slash>>

\* the loop over this.files.entries(): the records whose key starts with the prefix
RECURSIVE listMatch(_, _)
listMatch(fs, prefix) ==
    IF fs = <<>> THEN <<>>
    ELSE (IF StartsWith(Head(fs).key, prefix) THEN <<Head(fs).val.info>> ELSE <<>>)
         \o listMatch(Tail(fs), prefix)

\* the comparator handed to files.sort
\* sortCompare, but the order requested is ignored
sortCompareAscending(a, b, sortBy) ==
    LET lt == CASE sortBy.column = "name" -> StrLess(a.name, b.name)
                [] sortBy.column = "created_at" -> a.createdAt < b.createdAt
                [] sortBy.column = "updated_at" -> a.updatedAt < b.updatedAt
        gt == CASE sortBy.column = "name" -> StrLess(b.name, a.name)
                [] sortBy.column = "created_at" -> a.createdAt > b.createdAt
                [] sortBy.column = "updated_at" -> a.updatedAt > b.updatedAt
    IN  IF lt THEN -1 ELSE IF gt THEN 1 ELSE 0

sortCompare(a, b, sortBy) ==
    LET lt == CASE sortBy.column = "name" -> StrLess(a.name, b.name)
                [] sortBy.column = "created_at" -> a.createdAt < b.createdAt
                [] sortBy.column = "updated_at" -> a.updatedAt < b.updatedAt
        gt == CASE sortBy.column = "name" -> StrLess(b.name, a.name)
                [] sortBy.column = "created_at" -> a.createdAt > b.createdAt
                [] sortBy.column = "updated_at" -> a.updatedAt > b.updatedAt
    IN  IF lt THEN (IF sortBy.order = "asc" THEN -1 ELSE 1)
        ELSE IF gt THEN (IF sortBy.order = "asc" THEN 1 ELSE -1)
        ELSE 0

\* sortInsert, but x goes before the elements it compares equal to
RECURSIVE sortInsertBeforeEqual(_, _, _)
sortInsertBeforeEqual(s, x, sortBy) ==
    IF s = <<>> THEN <<x>>
    ELSE IF sortCompare(Head(s), x, sortBy) >= 0 THEN <<x>> \o s
    ELSE <<Head(s)>> \o sortInsertBeforeEqual(Tail(s), x, sortBy)

\* put x into the sorted sequence s after every element that does not compare greater
RECURSIVE sortInsert(_, _, _)
sortInsert(s, x, sortBy) ==
    IF s = <<>> THEN <<x>>
    ELSE IF sortCompare(Head(s), x, sortBy) > 0 THEN <<x>> \o s
    ELSE <<Head(s)>> \o sortInsert(Tail(s), x, sortBy)

\* Array.prototype.sort with the comparator: a stable sort
RECURSIVE sortFiles(_, _)
sortFiles(s, sortBy) ==
    IF s = <<>> THEN <<>>
    ELSE sortInsert(sortFiles(SubSeq(s, 1, Len(s) - 1), sortBy), s[Len(s)], sortBy)

\* slice, but the element at index `end` is taken too
sliceInclusiveEnd(s, start, end) ==
    LET hi == IF end + 1 < Len(s) THEN end + 1 ELSE Len(s)
    IN  IF start >= hi THEN <<>> ELSE SubSeq(s, start + 1, hi)

\* files.slice(start, end) for 0 <= start
slice(s, start, end) ==
    LET hi == IF end < Len(s) THEN end ELSE Len(s)
    IN  IF start >= hi THEN <<>> ELSE SubSeq(s, start + 1, hi)

\* list, but hasMore is also true when the page ends on the last match
listHasMoreInclusive(bs, fs, bucket, options) ==
    IF ~MapHas(bs, bucket)
    THEN [err |-> Err("BUCKET_NOT_FOUND", 404), res |-> {}]
    ELSE LET limit == OrElse(options.limit, DefaultLimit)
             offset == OrElse(options.offset, 0)
             matched == listMatch(fs, listPrefix(bucket, options))
             sorted == IF options.sortBy # {}
                       THEN sortFiles(matched, OrElse(options.sortBy, {}))
                       ELSE matched
         IN  [err |-> Ok,
              res |-> {[files |-> slice(sorted, offset, offset + limit),
                        hasMore |-> offset + limit <= Len(sorted)]}]

list(bs, fs, bucket, options) ==
    IF ~MapHas(bs, bucket)
    THEN [err |-> Err("BUCKET_NOT_FOUND", 404), res |-> {}]
    ELSE LET limit == OrElse(options.limit, DefaultLimit)
             offset == OrElse(options.offset, 0)
             matched == listMatch(fs, listPrefix(bucket, options))
             sorted == IF options.sortBy # {}
                       THEN sortFiles(matched, OrElse(options.sortBy, {}))
                       ELSE matched
         IN  [err |-> Ok,
              res |-> {[files |-> slice(sorted, offset, offset + limit),
                        hasMore |-> offset + limit < Len(sorted)]}]

----------------------------------------------------------------------------
(* InMemoryStorageAdapter: URL operations *)

\* options.transform: ImageTransform (an absent field is the empty set);
\* options.download: true is [filename |-> {}], a string is [filename |-> {string}]
NoTransform == [width |-> {}, height |-> {}, resize |-> {}, quality |-> {}, format |-> {}]
Transforms == {{}, {NoTransform}, {[NoTransform EXCEPT !.width = {100}, !.format = {"webp"}]}}

PublicUrlOptionSet == [transform : Transforms]

SignedUrlOptionSet ==
    { [expiresIn |-> 60,    download |-> {},         transform |-> {}],
      [expiresIn |-> 61,    download |-> {[filename |-> {}]}, transform |-> {}],
      [expiresIn |-> 86400, download |-> {[filename |-> {<<"a", "/", "b">>}]},
                            transform |-> {NoTransform}],
      [expiresIn |-> 86401, download |-> {},         transform |-> {}],
      [expiresIn |-> 86401, download |-> {},         transform |-> {NoTransform}] }

SignedUploadUrlOptionSet == {{}, {[expiresIn |-> 60]}}

\* encodeURIComponent on the characters of the model
RECURSIVE encodeURIComponent(_)
encodeURIComponent(str) ==
    IF str = <<>> THEN <<>>
    ELSE (IF Head(str) = Slash THEN <<"%", "2", "F">> ELSE <<Head(str)>>)
         \o encodeURIComponent(Tail(str))

\* the URLSearchParams built from a transform: set only for truthy fields
transformParams(t) ==
    (IF t.width # {} /\ t.width # {0} THEN <<<<"w", t.width>>>> ELSE <<>>)
    \o (IF t.height # {} /\ t.height # {0} THEN <<<<"h", t.height>>>> ELSE <<>>)
    \o (IF t.resize # {} THEN <<<<"resize", t.resize>>>> ELSE <<>>)
    \o (IF t.quality # {} /\ t.quality # {0} THEN <<<<"q", t.quality>>>> ELSE <<>>)
    \o (IF t.format # {} THEN <<<<"f", t.format>>>> ELSE <<>>)

getPublicUrl(bucket, path, options) ==
    [err |-> Ok,
     res |-> {[url |-> Key(bucket, path),
               query |-> IF options.transform = {} THEN <<>>
                         ELSE transformParams(OrElse(options.transform, NoTransform))]}]

getSignedUrl(fs, bucket, path, options, now) ==
    IF ~MapHas(fs, Key(bucket, path))
    THEN [err |-> Err("FILE_NOT_FOUND", 404), res |-> {}]
    ELSE [err |-> Ok,
          res |-> {[url |-> Key(bucket, path),
                    token |-> "randomUUID",
                    expires |-> now + options.expiresIn * 1000,
                    download |-> IF options.download = {} THEN {}
                                 ELSE {encodeURIComponent(
                                          OrElse(OrElse(options.download, {}).filename,
                                                 BaseName(path)))}]}]

createSignedUploadUrl(bs, bucket, path, options, now) ==
    IF ~MapHas(bs, bucket)
    THEN [err |-> Err("BUCKET_NOT_FOUND", 404), res |-> {}]
    ELSE [err |-> Ok,
          res |-> {[url |-> Key(bucket, path),
                    token |-> "randomUUID",
                    expires |-> now + OrElse(options, [expiresIn |-> 3600]).expiresIn * 1000]}]

----------------------------------------------------------------------------
(* Capabilities and adapter variants *)

\* InMemoryStorageAdapter.getCapabilities()
MemoryCapabilities ==
    [provider |-> "memory",
     buckets |-> [public |-> TRUE, private |-> TRUE, maxBuckets |-> 1000],
     files |-> [maxSizeBytes |-> 100 * 1024 * 1024,
                allowedMimeTypes |-> [any |-> TRUE, types |-> {}],
                signedUrls |-> TRUE,
                signedUrlMaxAge |-> 86400,
                publicUrls |-> TRUE,
                transformations |-> FALSE]]

\* the adapters a service may wrap: the in-memory adapter as written, and the
\* same store behind other advertised capabilities
Adapters ==
    { [caps |-> MemoryCapabilities, signedUploadUrl |-> TRUE],
      [caps |-> [provider |-> "restricted",
                 buckets |-> [public |-> FALSE, private |-> TRUE, maxBuckets |-> 1],
                 files |-> [maxSizeBytes |-> 1,
                            allowedMimeTypes |-> [any |-> FALSE, types |-> {"image/png"}],
                            signedUrls |-> FALSE,
                            signedUrlMaxAge |-> 60,
                            publicUrls |-> FALSE,
                            transformations |-> FALSE]],
       signedUploadUrl |-> TRUE],
      [caps |-> [provider |-> "transforming",
                 buckets |-> [public |-> TRUE, private |-> FALSE, maxBuckets |-> 1000],
                 files |-> [maxSizeBytes |-> 2,
                            allowedMimeTypes |-> [any |-> FALSE,
                                                  types |-> {"image/png", "text/plain"}],
                            signedUrls |-> TRUE,
                            signedUrlMaxAge |-> 60,
                            publicUrls |-> TRUE,
                            transformations |-> TRUE]],
       signedUploadUrl |-> FALSE] }

----------------------------------------------------------------------------
(* StorageService: the checks that precede the delegation to the adapter *)

\* svcCreateBucketCheck, but a bucket is private only when public: false is written
svcCreateBucketCheckExplicitOnly(c, public) ==
    IF OrElse(public, FALSE) /\ ~c.buckets.public
    THEN Err("PUBLIC_BUCKETS_NOT_SUPPORTED", 400)
    ELSE IF public = {FALSE} /\ ~c.buckets.private
    THEN Err("PRIVATE_BUCKETS_NOT_SUPPORTED", 400)
    ELSE Ok

svcCreateBucketCheck(c, public) ==
    IF OrElse(public, FALSE) /\ ~c.buckets.public
    THEN Err("PUBLIC_BUCKETS_NOT_SUPPORTED", 400)
    ELSE IF ~OrElse(public, FALSE) /\ ~c.buckets.private
    THEN Err("PRIVATE_BUCKETS_NOT_SUPPORTED", 400)
    ELSE Ok

\* file.length | file.byteLength | file.size
svcFileSize(file) == Len(file.bytes)

\* svcUploadCheck, but a payload of exactly maxSizeBytes is refused
svcUploadCheckInclusive(c, file, options) ==
    IF svcFileSize(file) >= c.files.maxSizeBytes
    THEN Err("FILE_TOO_LARGE", 413)
    ELSE IF ~c.files.allowedMimeTypes.any /\ Truthy(options.contentType)
            /\ ~(OrElse(options.contentType, "") \in c.files.allowedMimeTypes.types)
    THEN Err("MIME_TYPE_NOT_ALLOWED", 400)
    ELSE Ok

svcUploadCheck(c, file, options) ==
    IF svcFileSize(file) > c.files.maxSizeBytes
    THEN Err("FILE_TOO_LARGE", 413)
    ELSE IF ~c.files.allowedMimeTypes.any /\ Truthy(options.contentType)
            /\ ~(OrElse(options.contentType, "") \in c.files.allowedMimeTypes.types)
    THEN Err("MIME_TYPE_NOT_ALLOWED", 400)
    ELSE Ok

\* svcGetPublicUrlCheck, but the transform is examined before the capability
svcGetPublicUrlCheckTransformFirst(c, options) ==
    IF options.transform # {} /\ ~c.files.transformations
    THEN Err("TRANSFORMATIONS_NOT_SUPPORTED", 400)
    ELSE IF ~c.files.publicUrls
    THEN Err("PUBLIC_URLS_NOT_SUPPORTED", 400)
    ELSE Ok

svcGetPublicUrlCheck(c, options) ==
    IF ~c.files.publicUrls
    THEN Err("PUBLIC_URLS_NOT_SUPPORTED", 400)
    ELSE IF options.transform # {} /\ ~c.files.transformations
    THEN Err("TRANSFORMATIONS_NOT_SUPPORTED", 400)
    ELSE Ok

\* svcGetSignedUrlCheck, but the expiry is examined before the capability
svcGetSignedUrlCheckExpiryFirst(c, options) ==
    IF options.expiresIn > c.files.signedUrlMaxAge
    THEN Err("EXPIRY_TOO_LONG", 400)
    ELSE IF ~c.files.signedUrls
    THEN Err("SIGNED_URLS_NOT_SUPPORTED", 400)
    ELSE IF options.transform # {} /\ ~c.files.transformations
    THEN Err("TRANSFORMATIONS_NOT_SUPPORTED", 400)
    ELSE Ok

\* svcGetSignedUrlCheck, but an expiry equal to the ceiling is refused
svcGetSignedUrlCheckInclusive(c, options) ==
    IF ~c.files.signedUrls
    THEN Err("SIGNED_URLS_NOT_SUPPORTED", 400)
    ELSE IF options.expiresIn >= c.files.signedUrlMaxAge
    THEN Err("EXPIRY_TOO_LONG", 400)
    ELSE IF options.transform # {} /\ ~c.files.transformations
    THEN Err("TRANSFORMATIONS_NOT_SUPPORTED", 400)
    ELSE Ok

svcGetSignedUrlCheck(c, options) ==
    IF ~c.files.signedUrls
    THEN Err("SIGNED_URLS_NOT_SUPPORTED", 400)
    ELSE IF options.expiresIn > c.files.signedUrlMaxAge
    THEN Err("EXPIRY_TOO_LONG", 400)
    ELSE IF options.transform # {} /\ ~c.files.transformations
    THEN Err("TRANSFORMATIONS_NOT_SUPPORTED", 400)
    ELSE Ok

\* svcCreateSignedUploadUrlCheck, but the signedUrls capability is consulted
svcCreateSignedUploadUrlCheckCapability(a) ==
    IF ~a.caps.files.signedUrls
    THEN Err("SIGNED_UPLOAD_URL_NOT_SUPPORTED", 400)
    ELSE Ok

svcCreateSignedUploadUrlCheck(a) ==
    IF ~a.signedUploadUrl
    THEN Err("SIGNED_UPLOAD_URL_NOT_SUPPORTED", 400)
    ELSE Ok

\* svcPathArray, but a single path is handed on as it is: the adapter's loop then
\* takes it character by character
svcPathArrayUnwrapped(paths) ==
    IF paths.isArray THEN paths.value
    ELSE [i \in 1..Len(paths.value) |-> <<paths.value[i]>>]

\* Array.isArray(paths) ? paths : [paths]
svcPathArray(paths) == IF paths.isArray THEN paths.value ELSE <<paths.value>>

----------------------------------------------------------------------------
(* StorageService: each operation checks, then delegates.  `delegated`     *)
(* tells whether the adapter's operation was invoked.                      *)

(* SupabaseStorageAdapter: what it raises for the backend's reply.  `error` is
   whether the client's call returned an error, `info` whether the getFileInfo
   that follows a move or copy found the destination. *)
supabaseCreateBucket(error) ==
    IF error THEN Err("BUCKET_CREATE_FAILED", 400) ELSE Ok

supabaseDeleteBucket(error) ==
    IF error THEN Err("BUCKET_DELETE_FAILED", 400) ELSE Ok

supabaseDownload(error) ==
    IF error THEN Err("DOWNLOAD_FAILED", 400) ELSE Ok

supabaseMove(error, info) ==
    IF error THEN Err("MOVE_FAILED", 400)
    ELSE IF ~info THEN Err("MOVE_FAILED", 500)
    ELSE Ok

supabaseCopy(error, info) ==
    IF error THEN Err("COPY_FAILED", 400)
    ELSE IF ~info THEN Err("COPY_FAILED", 500)
    ELSE Ok

\* the FileRecord made of an entry f of the backend's listing
supabaseListRecord(bucket, f, options) ==
    [id |-> OrElse(f.id, f.name),
     name |-> f.name,
     bucket |-> bucket,
     path |-> IF options.prefix # {} /\ OrElse(options.prefix, <<>>) # <<>>
              THEN OrElse(options.prefix, <<>>) \o <<Slash>> \o f.name
              ELSE f.name,
     size |-> f.size,
     mimeType |-> f.mimetype,
     createdAt |-> f.created_at,
     updatedAt |-> f.updated_at]

\* list: `data` is the listing the backend returned for the prefix, limit, offset
\* and sortBy it was handed; entries without id are folder placeholders
supabaseList(bucket, options, error, data) ==
    IF error THEN [err |-> Err("LIST_FAILED", 400), res |-> {}]
    ELSE LET kept == SelectSeq(data, LAMBDA f : f.id # {})
         IN  [err |-> Ok,
              res |-> {[files |-> [i \in 1..Len(kept) |->
                                      supabaseListRecord(bucket, kept[i], options)],
                        hasMore |-> Len(data) = OrElse(options.limit, 100)]}]

\* the operations the service hands to the adapter as they are
svcGetBucket(bs, name) == getBucket(bs, name)
svcListBuckets(bs) == listBuckets(bs)
svcDeleteBucket(bs, fs, name) == deleteBucket(bs, fs, name)
svcDownload(fs, bucket, path) == download(fs, bucket, path)
svcGetFileInfo(fs, bucket, path) == getFileInfo(fs, bucket, path)
svcList(bs, fs, bucket, options) == list(bs, fs, bucket, options)
svcMove(fs, bucket, fromPath, toPath, now) == move(fs, bucket, fromPath, toPath, now)
svcCopy(fs, bucket, fromPath, toPath, now, id) == copy(fs, bucket, fromPath, toPath, now, id)

svcCreateBucket(c, bs, name, public, now) ==
    LET pre == svcCreateBucketCheck(c, public)
    IN  IF pre # Ok THEN [err |-> pre, buckets |-> bs, res |-> {}, delegated |-> FALSE]
        ELSE LET r == createBucket(bs, name, public, now)
             IN  [err |-> r.err, buckets |-> r.buckets, res |-> r.res, delegated |-> TRUE]

\* svcUpload, but an error of the adapter is reported as a failed upload
svcUploadDowngrades(c, bs, fs, bucket, path, file, options, now, id) ==
    LET pre == svcUploadCheck(c, file, options)
    IN  IF pre # Ok THEN [err |-> pre, files |-> fs, res |-> {}, delegated |-> FALSE]
        ELSE LET r == upload(bs, fs, bucket, path, file, options, now, id)
             IN  [err |-> IF r.err = Ok THEN Ok ELSE Err("UPLOAD_FAILED", 500),
                  files |-> r.files, res |-> r.res, delegated |-> TRUE]

svcUpload(c, bs, fs, bucket, path, file, options, now, id) ==
    LET pre == svcUploadCheck(c, file, options)
    IN  IF pre # Ok THEN [err |-> pre, files |-> fs, res |-> {}, delegated |-> FALSE]
        ELSE LET r == upload(bs, fs, bucket, path, file, options, now, id)
             IN  [err |-> r.err, files |-> r.files, res |-> r.res, delegated |-> TRUE]

svcDelete(fs, bucket, paths) == delete(fs, bucket, svcPathArray(paths))

svcGetPublicUrl(c, bucket, path, options) ==
    LET pre == svcGetPublicUrlCheck(c, options)
    IN  IF pre # Ok THEN [err |-> pre, res |-> {}, delegated |-> FALSE]
        ELSE LET r == getPublicUrl(bucket, path, options)
             IN  [err |-> r.err, res |-> r.res, delegated |-> TRUE]

svcGetSignedUrl(c, fs, bucket, path, options, now) ==
    LET pre == svcGetSignedUrlCheck(c, options)
    IN  IF pre # Ok THEN [err |-> pre, res |-> {}, delegated |-> FALSE]
        ELSE LET r == getSignedUrl(fs, bucket, path, options, now)
             IN  [err |-> r.err, res |-> r.res, delegated |-> TRUE]

svcCreateSignedUploadUrl(a, bs, bucket, path, options, now) ==
    LET pre == svcCreateSignedUploadUrlCheck(a)
    IN  IF pre # Ok THEN [err |-> pre, res |-> {}, delegated |-> FALSE]
        ELSE LET r == createSignedUploadUrl(bs, bucket, path, options, now)
             IN  [err |-> r.err, res |-> r.res, delegated |-> TRUE]

----------------------------------------------------------------------------
(* The state machine.  One action per call: the action runs the whole       *)
(* handler and leaves the outcome in `last`; Return is the caller taking    *)
(* the outcome, after which the next call is made.  `via` tells whether     *)
(* the call is made on the StorageService or on the adapter itself.         *)

Layers == {"service", "adapter"}

Call(op, via, err) == [op |-> op, via |-> via, err |-> err.code]

NoCall == [op |-> "none", via |-> "none", err |-> "OK"]

Idle == last = NoCall

\* the clock does not run backwards; it may stand still between two readings.
\* `clock` is the last reading that went into a stored record.
Readings == {t \in {clock, clock + 1} : t <= MaxClock}

\* the calls the actions are taken with
BucketCalls ==
    { [name |-> <<"a">>, public |-> {TRUE}],
      [name |-> <<"a", "/", "b">>, public |-> {}],
      [name |-> <<"a", "/", "b">>, public |-> {FALSE}] }

NoOptions == [contentType |-> {}, upsert |-> {}, metadata |-> {}]

UploadCalls ==
    { [file |-> [kind |-> "Buffer", bytes |-> <<1>>, type |-> ""], options |-> NoOptions],
      [file |-> [kind |-> "Buffer", bytes |-> <<1>>, type |-> ""],
       options |-> [contentType |-> {"text/plain"}, upsert |-> {FALSE}, metadata |-> {}]],
      [file |-> [kind |-> "ArrayBuffer", bytes |-> <<2, 3>>, type |-> ""],
       options |-> [contentType |-> {"image/png"}, upsert |-> {TRUE}, metadata |-> {"m1"}]] }

BlobUploadCalls ==
    { [file |-> [kind |-> "Blob", bytes |-> <<2, 3>>, type |-> "text/plain"],
       options |-> NoOptions],
      [file |-> [kind |-> "File", bytes |-> <<1>>, type |-> ""],
       options |-> [contentType |-> {}, upsert |-> {TRUE}, metadata |-> {}]] }

ListCalls ==
    { [prefix |-> {}, limit |-> {}, offset |-> {}, sortBy |-> {}],
      [prefix |-> {}, limit |-> {1}, offset |-> {}, sortBy |-> {}],
      [prefix |-> {}, limit |-> {1}, offset |-> {1}, sortBy |-> {}],
      [prefix |-> {<<"b">>}, limit |-> {}, offset |-> {}, sortBy |-> {}],
      [prefix |-> {}, limit |-> {}, offset |-> {},
       sortBy |-> {[column |-> "name", order |-> "asc"]}],
      [prefix |-> {}, limit |-> {1}, offset |-> {},
       sortBy |-> {[column |-> "created_at", order |-> "desc"]}] }

\* the (bucket, path) pairs the calls write to and ask URLs for; every pair is read
Targets ==
    { <<<<"a">>, <<"b", "/", "c">>>>, <<<<"a", "/", "b">>, <<"c">>>>,
      <<<<"a">>, <<"b">>>>, <<<<"a", "/", "b">>, <<"b">>>> }

\* the pairs addressed while an upload may be suspended
AsyncTargets == {<<<<"a">>, <<"b", "/", "c">>>>, <<<<"a">>, <<"b">>>>, <<<<"a", "/", "b">>, <<"c">>>>}

\* paths: string | string[] on the service, string[] on the adapter
MaxPaths == 2
PathLists == UNION {[1..n -> Paths] : n \in 0..MaxPaths}
DeleteInputs(via) ==
    {[isArray |-> TRUE, value |-> ps] : ps \in PathLists}
    \cup (IF via = "service" THEN {[isArray |-> FALSE, value |-> p] : p \in Paths} ELSE {})

InitMaps ==
    /\ buckets = <<>>
    /\ files = <<>>
    /\ pending = <<>>
    /\ clock = 0
    /\ nextId = 0
    /\ last = NoCall

\* the in-memory adapter as written
Init == InitMaps /\ adapter = [caps |-> MemoryCapabilities, signedUploadUrl |-> TRUE]

\* a service around any of the adapter variants
InitService == InitMaps /\ adapter \in Adapters

Return ==
    /\ ~Idle
    /\ last' = NoCall
    /\ UNCHANGED <<buckets, files, pending, adapter, clock, nextId>>

CreateBucket(via, name, public) ==
    /\ Idle
    /\ \E now \in Readings :
        LET r == IF via = "service"
                 THEN svcCreateBucket(adapter.caps, buckets, name, public, now)
                 ELSE createBucket(buckets, name, public, now)
        IN  /\ buckets' = r.buckets
            /\ clock' = IF r.err = Ok THEN now ELSE clock
            /\ last' = Call("createBucket", via, r.err)
    /\ UNCHANGED <<files, pending, adapter, nextId>>

GetBucket(via, name) ==
    /\ Idle
    /\ last' = Call("getBucket", via, Ok)
    /\ UNCHANGED <<buckets, files, pending, adapter, clock, nextId>>

ListBuckets(via) ==
    /\ Idle
    /\ last' = Call("listBuckets", via, Ok)
    /\ UNCHANGED <<buckets, files, pending, adapter, clock, nextId>>

DeleteBucket(via, name) ==
    /\ Idle
    /\ LET r == IF via = "service" THEN svcDeleteBucket(buckets, files, name)
                ELSE deleteBucket(buckets, files, name)
       IN  /\ buckets' = r.buckets
           /\ last' = Call("deleteBucket", via, r.err)
    /\ UNCHANGED <<files, pending, adapter, clock, nextId>>

\* room for one more stored object and one more identifier
CanStore(key) == nextId < MaxId /\ (MapHas(files, key) \/ Len(files) < MaxFiles)

\* upload of a Buffer or an ArrayBuffer: the handler runs to its end
Upload(via, bucket, path, file, options) ==
    /\ Idle
    /\ ~IsBlob(file)
    /\ \E now \in Readings :
        LET r == IF via = "service"
                 THEN svcUpload(adapter.caps, buckets, files, bucket, path, file, options,
                                now, nextId + 1)
                 ELSE upload(buckets, files, bucket, path, file, options, now, nextId + 1)
        IN  /\ r.err = Ok => CanStore(Key(bucket, path))
            /\ files' = r.files
            /\ clock' = IF r.err = Ok THEN now ELSE clock
            /\ nextId' = IF r.err = Ok THEN nextId + 1 ELSE nextId
            /\ last' = Call("upload", via, r.err)
    /\ UNCHANGED <<buckets, pending, adapter>>

\* upload of a Blob or a File: the handler runs to `await file.arrayBuffer()`
UploadAwait(via, bucket, path, file, options) ==
    /\ Idle
    /\ IsBlob(file)
    /\ LET pre == IF via = "service" THEN svcUploadCheck(adapter.caps, file, options) ELSE Ok
           chk == IF pre # Ok THEN pre ELSE uploadCheck(buckets, files, bucket, path, options)
       IN  IF chk # Ok
           THEN /\ last' = Call("upload", via, chk)
                /\ pending' = pending
           ELSE /\ Len(pending) < MaxPending
                /\ pending' = Append(pending, [via |-> via, bucket |-> bucket, path |-> path,
                                               file |-> file, options |-> options])
                /\ last' = Call("uploadAwait", via, Ok)
    /\ UNCHANGED <<buckets, files, adapter, clock, nextId>>

\* a suspended upload runs from its await to its end
UploadResume(i) ==
    /\ Idle
    /\ LET call == pending[i]
       IN  /\ CanStore(Key(call.bucket, call.path))
           /\ \E now \in Readings :
               LET r == uploadStore(files, call.bucket, call.path, call.file, call.options,
                                    now, nextId + 1)
               IN  /\ files' = r.files
                   /\ clock' = now
                   /\ nextId' = nextId + 1
                   /\ last' = Call("upload", call.via, r.err)
           /\ pending' = SubSeq(pending, 1, i - 1) \o SubSeq(pending, i + 1, Len(pending))
    /\ UNCHANGED <<buckets, adapter>>

Download(via, bucket, path) ==
    /\ Idle
    /\ LET r == IF via = "service" THEN svcDownload(files, bucket, path)
                ELSE download(files, bucket, path)
       IN  last' = Call("download", via, r.err)
    /\ UNCHANGED <<buckets, files, pending, adapter, clock, nextId>>

GetFileInfo(via, bucket, path) ==
    /\ Idle
    /\ LET r == IF via = "service" THEN svcGetFileInfo(files, bucket, path)
                ELSE getFileInfo(files, bucket, path)
       IN  last' = Call(IF r = {} THEN "getFileInfo:null" ELSE "getFileInfo", via, Ok)
    /\ UNCHANGED <<buckets, files, pending, adapter, clock, nextId>>

\* List, but a sorted listing leaves the stored objects in reverse order
ListReordersStore(via, bucket, options) ==
    /\ Idle
    /\ last' = Call("list", via, list(buckets, files, bucket, options).err)
    /\ files' = IF options.sortBy = {} THEN files
                ELSE [i \in 1..Len(files) |-> files[Len(files) + 1 - i]]
    /\ UNCHANGED <<buckets, pending, adapter, clock, nextId>>

List(via, bucket, options) ==
    /\ Idle
    /\ LET r == IF via = "service" THEN svcList(buckets, files, bucket, options)
                ELSE list(buckets, files, bucket, options)
       IN  last' = Call("list", via, r.err)
    /\ UNCHANGED <<buckets, files, pending, adapter, clock, nextId>>

Delete(via, bucket, paths) ==
    /\ Idle
    /\ LET r == IF via = "service" THEN svcDelete(files, bucket, paths)
                ELSE delete(files, bucket, paths.value)
       IN  /\ files' = r.files
           /\ last' = Call("delete", via, r.err)
    /\ UNCHANGED <<buckets, pending, adapter, clock, nextId>>

Move(via, bucket, fromPath, toPath) ==
    /\ Idle
    /\ \E now \in Readings :
        LET r == IF via = "service" THEN svcMove(files, bucket, fromPath, toPath, now)
                 ELSE move(files, bucket, fromPath, toPath, now)
        IN  /\ files' = r.files
            /\ clock' = IF r.err = Ok THEN now ELSE clock
            /\ last' = Call("move", via, r.err)
    /\ UNCHANGED <<buckets, pending, adapter, nextId>>

Copy(via, bucket, fromPath, toPath) ==
    /\ Idle
    /\ \E now \in Readings :
        LET r == IF via = "service"
                 THEN svcCopy(files, bucket, fromPath, toPath, now, nextId + 1)
                 ELSE copy(files, bucket, fromPath, toPath, now, nextId + 1)
        IN  /\ r.err = Ok => CanStore(Key(bucket, toPath))
            /\ files' = r.files
            /\ clock' = IF r.err = Ok THEN now ELSE clock
            /\ nextId' = IF r.err = Ok THEN nextId + 1 ELSE nextId
            /\ last' = Call("copy", via, r.err)
    /\ UNCHANGED <<buckets, pending, adapter>>

GetPublicUrl(via, bucket, path, options) ==
    /\ Idle
    /\ LET r == IF via = "service" THEN svcGetPublicUrl(adapter.caps, bucket, path, options)
                ELSE getPublicUrl(bucket, path, options)
       IN  last' = Call("getPublicUrl", via, r.err)
    /\ UNCHANGED <<buckets, files, pending, adapter, clock, nextId>>

GetSignedUrl(via, bucket, path, options) ==
    /\ Idle
    /\ \E now \in Readings :
        LET r == IF via = "service"
                 THEN svcGetSignedUrl(adapter.caps, files, bucket, path, options, now)
                 ELSE getSignedUrl(files, bucket, path, options, now)
        IN  last' = Call("getSignedUrl", via, r.err)
    /\ UNCHANGED <<buckets, files, pending, adapter, clock, nextId>>

CreateSignedUploadUrl(via, bucket, path, options) ==
    /\ Idle
    /\ via = "adapter" => adapter.signedUploadUrl
    /\ \E now \in Readings :
        LET r == IF via = "service"
                 THEN svcCreateSignedUploadUrl(adapter, buckets, bucket, path, options, now)
                 ELSE createSignedUploadUrl(buckets, bucket, path, options, now)
        IN  last' = Call("createSignedUploadUrl", via, r.err)
    /\ UNCHANGED <<buckets, files, pending, adapter, clock, nextId>>

\* every call but the uploads, made through `via`
Calls(via) ==
    \/ \E c \in BucketCalls : CreateBucket(via, c.name, c.public)
    \/ \E name \in BucketNames : GetBucket(via, name)
    \/ ListBuckets(via)
    \/ \E name \in BucketNames : DeleteBucket(via, name)
    \/ \E bucket \in BucketNames, path \in Paths : Download(via, bucket, path)
    \/ \E bucket \in BucketNames, path \in Paths : GetFileInfo(via, bucket, path)
    \/ \E bucket \in BucketNames, options \in ListCalls : List(via, bucket, options)
    \/ \E bucket \in BucketNames, paths \in DeleteInputs(via) : Delete(via, bucket, paths)
    \/ \E t \in Targets, fromPath \in Paths : Move(via, t[1], fromPath, t[2])
    \/ \E t \in Targets, fromPath \in Paths : Copy(via, t[1], fromPath, t[2])
    \/ \E t \in Targets, options \in PublicUrlOptionSet :
          GetPublicUrl(via, t[1], t[2], options)
    \/ \E t \in Targets, options \in SignedUrlOptionSet :
          GetSignedUrl(via, t[1], t[2], options)
    \/ \E t \in Targets, options \in SignedUploadUrlOptionSet :
          CreateSignedUploadUrl(via, t[1], t[2], options)

\* the in-memory adapter, called directly with Buffer and ArrayBuffer payloads
Next ==
    \/ Calls("adapter")
    \/ \E t \in Targets, c \in UploadCalls :
          Upload("adapter", t[1], t[2], c.file, c.options)
    \/ Return

Spec == Init /\ [][Next]_vars

\* a service around an adapter variant, every call made on the service
NextService ==
    \/ Calls("service")
    \/ \E t \in Targets, c \in UploadCalls :
          Upload("service", t[1], t[2], c.file, c.options)
    \/ Return

SpecService == InitService /\ [][NextService]_vars

\* the in-memory adapter with Blob and File payloads as well: an upload of one is
\* suspended at `await file.arrayBuffer()` and any other call may run before it resumes
NextAsync ==
    \/ \E c \in BucketCalls : CreateBucket("adapter", c.name, c.public)
    \/ \E name \in BucketNames : DeleteBucket("adapter", name)
    \/ \E t \in AsyncTargets, c \in UploadCalls :
          Upload("adapter", t[1], t[2], c.file, c.options)
    \/ \E t \in AsyncTargets, c \in BlobUploadCalls :
          UploadAwait("adapter", t[1], t[2], c.file, c.options)
    \/ \E i \in 1..Len(pending) : UploadResume(i)
    \/ \E t \in AsyncTargets : Download("adapter", t[1], t[2])
    \/ \E t \in AsyncTargets : Delete("adapter", t[1], [isArray |-> TRUE, value |-> <<t[2]>>])
    \/ \E t \in AsyncTargets, fromPath \in Paths : Move("adapter", t[1], fromPath, t[2])
    \/ \E t \in AsyncTargets, fromPath \in Paths : Copy("adapter", t[1], fromPath, t[2])
    \/ Return

SpecAsync == Init /\ [][NextAsync]_vars

----------------------------------------------------------------------------
(* Properties.  A property of an operation is stated of the operation's     *)
(* function applied, with every input, to every state in which a call can   *)
(* be made (Idle); the actions above apply the same functions.              *)

\* what an operation may be called with in a state: clock readings and the next identifier
Nows == {clock, clock + 1}
FreshId == nextId + 1

NonUpsert(options) == ~OrElse(options.upsert, FALSE)

\* the stored records, and those of a bucket
Records == {files[i].val.info : i \in 1..Len(files)}
RecordsOf(name) == {r \in Records : r.bucket = name}

\* C1: for every existing bucket B, deleteBucket(B) succeeds and removes B if and only
\* if no stored FileRecord has bucket = B; otherwise it fails BUCKET_NOT_EMPTY and
\* leaves the bucket map as it was (the object map is not touched by deleteBucket).
C1_DeleteBucketIffEmpty ==
    Idle =>
    \A name \in BucketNames :
        MapHas(buckets, name) =>
            LET r == deleteBucket(buckets, files, name)
            IN  IF RecordsOf(name) = {}
                THEN r.err = Ok /\ r.buckets = MapDelete(buckets, name)
                ELSE r.err = Err("BUCKET_NOT_EMPTY", 400) /\ r.buckets = buckets

\* C2: whenever a stored record has bucket = B and path = P, an upload to (B, P)
\* without upsert (absent or false) fails with FILE_EXISTS and leaves every stored
\* object, its bytes and its whole record, as it was.
C2_UploadConflict ==
    Idle =>
    \A bucket \in BucketNames, path \in Paths, file \in FileInputs,
       options \in UploadOptionSet, now \in Nows :
        ((\E r \in RecordsOf(bucket) : r.path = path) /\ NonUpsert(options)) =>
            /\ uploadCheck(buckets, files, bucket, path, options) = Err("FILE_EXISTS", 409)
            /\ upload(buckets, files, bucket, path, file, options, now, FreshId).files = files

\* the bytes download returns
Bytes(r) == OrElse(r.res, [bytes |-> <<>>, type |-> ""]).bytes

\* C3: after a successful upload(bucket, path, data), fresh or overwriting, download of
\* the same (bucket, path) succeeds and returns exactly the bytes of data; the same holds
\* when the upload completes after its await.
C3_UploadDownloadRoundTrip ==
    Idle =>
    \A bucket \in BucketNames, path \in Paths, file \in FileInputs,
       options \in UploadOptionSet, now \in Nows :
        LET direct == upload(buckets, files, bucket, path, file, options, now, FreshId)
            resumed == uploadStore(files, bucket, path, file, options, now, FreshId)
        IN  /\ (~IsBlob(file) /\ direct.err = Ok) =>
                   /\ download(direct.files, bucket, path).err = Ok
                   /\ Bytes(download(direct.files, bucket, path)) = file.bytes
            /\ /\ download(resumed.files, bucket, path).err = Ok
               /\ Bytes(download(resumed.files, bucket, path)) = file.bytes

\* an upload has just overwritten an object with other bytes: the object carries the
\* newest identifier and was created before it was last written
C3_Witness ==
    /\ last.op = "upload" /\ last.err = "OK"
    /\ \E i \in 1..Len(files) :
          /\ files[i].val.info.id = nextId
          /\ files[i].val.info.createdAt < files[i].val.info.updatedAt
          /\ files[i].val.data = <<2, 3>>

\* n is the last '/'-separated segment of p
IsLastSegment(n, p) ==
    /\ \A i \in 1..Len(n) : n[i] # Slash
    /\ Len(n) <= Len(p)
    /\ SubSeq(p, Len(p) - Len(n) + 1, Len(p)) = n
    /\ Len(n) < Len(p) => p[Len(p) - Len(n)] = Slash

\* C4: after a successful move(bucket, a, b) nothing is found at a; at b is the source's
\* record with createdAt, id, size, mimeType and metadata kept, path = b, name = the
\* last segment of b and updatedAt = the time of the move; download(b) returns the
\* source's bytes; the number of stored objects is unchanged.
C4_MoveRelinks ==
    Idle =>
    \A bucket \in BucketNames, a \in Paths, b \in Paths, now \in Nows :
        LET r == move(files, bucket, a, b, now)
        IN  r.err = Ok =>
                LET src == MapGet(files, Key(bucket, a))
                    at == getFileInfo(r.files, bucket, b)
                IN  /\ getFileInfo(r.files, bucket, a) = {}
                    /\ at # {} /\ at = r.res
                    /\ \A d \in at :
                          /\ d.createdAt = src.info.createdAt
                          /\ d.id = src.info.id
                          /\ d.size = src.info.size
                          /\ d.mimeType = src.info.mimeType
                          /\ d.metadata = src.info.metadata
                          /\ d.path = b
                          /\ IsLastSegment(d.name, b)
                          /\ d.updatedAt = now
                    /\ Bytes(download(r.files, bucket, b)) = src.data
                    /\ Len(r.files) = Len(files)

\* a move has just succeeded on an object created earlier, next to another object
C4_Witness ==
    /\ last.op = "move" /\ last.err = "OK"
    /\ Len(files) = 2
    /\ files[2].val.info.createdAt < files[2].val.info.updatedAt
    /\ files[2].val.info.name # files[2].val.info.path

\* C5: after a successful copy(bucket, a, c) both a and c are found; the record and bytes
\* at a are unchanged; c has the bytes, size, mimeType and metadata of a, an id other
\* than a's, and createdAt = updatedAt = the time of the copy; there is exactly one more
\* stored object.
C5_CopyCreatesNewObject ==
    Idle =>
    \A bucket \in BucketNames, a \in Paths, c \in Paths, now \in Nows :
        LET r == copy(files, bucket, a, c, now, FreshId)
        IN  r.err = Ok =>
                LET src == MapGet(files, Key(bucket, a))
                    at == getFileInfo(r.files, bucket, c)
                IN  /\ getFileInfo(r.files, bucket, a) = {src.info}
                    /\ Bytes(download(r.files, bucket, a)) = src.data
                    /\ at # {} /\ at = r.res
                    /\ \A d \in at :
                          /\ d.size = src.info.size
                          /\ d.mimeType = src.info.mimeType
                          /\ d.metadata = src.info.metadata
                          /\ d.id # src.info.id
                          /\ d.createdAt = now
                          /\ d.updatedAt = now
                    /\ Bytes(download(r.files, bucket, c)) = src.data
                    /\ Len(r.files) = Len(files) + 1

\* a copy has just succeeded of an object created before the copy was made
C5_Witness ==
    /\ last.op = "copy" /\ last.err = "OK"
    /\ Len(files) = 2
    /\ files[1].val.info.createdAt < files[2].val.info.createdAt
    /\ files[1].val.data = files[2].val.data
    /\ files[1].val.info.id # files[2].val.info.id

\* C6: move and copy fail FILE_NOT_FOUND when nothing is found at the source, whatever
\* is at the destination, and FILE_EXISTS when the source is found and the destination
\* is occupied (also when source = destination); a failing call leaves the object map
\* as it was (neither operation writes the bucket map).
C6_MoveCopyNeverOverwrite ==
    Idle =>
    \A bucket \in BucketNames, a \in Paths, b \in Paths, now \in Nows :
        LET m == move(files, bucket, a, b, now)
            c == copy(files, bucket, a, b, now, FreshId)
            want == IF getFileInfo(files, bucket, a) = {} THEN Err("FILE_NOT_FOUND", 404)
                    ELSE IF getFileInfo(files, bucket, b) # {} THEN Err("FILE_EXISTS", 409)
                    ELSE Ok
        IN  /\ m.err = want /\ c.err = want
            /\ want # Ok => m.files = files /\ c.files = files /\ m.res = {} /\ c.res = {}

\* a copy onto an occupied destination has just been refused
C6_Witness ==
    /\ last.op = "copy" /\ last.err = "FILE_EXISTS"
    /\ Len(files) = 2

Min(x, y) == IF x < y THEN x ELSE y
Max(x, y) == IF x < y THEN y ELSE x

\* the records of `bucket` under the prefix of `options`, in the order list puts them
\* before it cuts the page
Listing(bucket, options) ==
    LET matched == listMatch(files, listPrefix(bucket, options))
    IN  IF options.sortBy = {} THEN matched
        ELSE sortFiles(matched, CHOOSE sortBy \in options.sortBy : TRUE)

\* the calls with which pagination is examined
PageOptionSet ==
    {o \in ListOptionSet : o.sortBy \in {{}, {[column |-> "name", order |-> "desc"]}}}

\* C7: list returns the elements offset+1 .. offset+n of the matched and sorted
\* sequence, n = min(limit, max(0, total - offset)), limit defaulting to 100 and offset
\* to 0, and hasMore is true exactly when offset + limit < total.
C7_Pagination ==
    Idle =>
    \A bucket \in BucketNames, options \in PageOptionSet :
        LET r == list(buckets, files, bucket, options)
            all == Listing(bucket, options)
            total == Len(all)
            limit == OrElse(options.limit, 100)
            offset == OrElse(options.offset, 0)
            n == Min(limit, Max(0, total - offset))
        IN  r.err = Ok =>
                \A page \in r.res :
                    /\ Len(page.files) = n
                    /\ \A i \in 1..n : page.files[i] = all[offset + i]
                    /\ page.hasMore = (offset + limit < total)

\* a list call has just returned from a bucket whose listing has two entries, so that
\* a page can end exactly on the last match
C7_Witness ==
    /\ last.op = "list" /\ last.err = "OK"
    /\ \E bucket \in BucketNames :
          /\ MapHas(buckets, bucket)
          /\ Len(listMatch(files, Key(bucket, <<>>))) = 2

\* x comes strictly before y in the ascending order of `column`
ColumnLess(column, x, y) ==
    CASE column = "name" -> StrLess(x.name, y.name)
      [] column = "created_at" -> x.createdAt < y.createdAt
      [] column = "updated_at" -> x.updatedAt < y.updatedAt

\* the calls with which sorting is examined: a sort, no pagination
SortOptionSet == {o \in ListOptionSet : o.sortBy # {} /\ o.limit = {} /\ o.offset = {}}

\* C8: with sortBy given and no pagination, the listing is non-decreasing in the column
\* for "asc" and non-increasing for "desc", and it is a permutation of the matched set.
C8_Sorting ==
    Idle =>
    \A bucket \in BucketNames, options \in SortOptionSet :
        LET r == list(buckets, files, bucket, options)
            matched == listMatch(files, listPrefix(bucket, options))
        IN  r.err = Ok =>
                \A page \in r.res, sortBy \in options.sortBy :
                    LET out == page.files
                    IN  /\ \A i, j \in 1..Len(out) :
                              i < j =>
                                  IF sortBy.order = "asc"
                                  THEN ~ColumnLess(sortBy.column, out[j], out[i])
                                  ELSE ~ColumnLess(sortBy.column, out[i], out[j])
                        /\ Len(out) = Len(matched)
                        /\ \A k \in 1..Len(matched) :
                              Cardinality({i \in 1..Len(out) : out[i] = matched[k]})
                                  = Cardinality({i \in 1..Len(matched) : matched[i] = matched[k]})

\* a sorted list call has just returned from a bucket that stores two objects in
\* descending order of their names, with different sizes and creation times
C8_Witness ==
    /\ last.op = "list" /\ last.err = "OK"
    /\ Len(files) = 2
    /\ files[1].val.info.bucket = files[2].val.info.bucket
    /\ StrLess(files[2].val.info.name, files[1].val.info.name)
    /\ files[1].val.info.size # files[2].val.info.size
    /\ files[1].val.info.createdAt # files[2].val.info.createdAt

\* C9: a list call changes neither map, so that the same call made again on the
\* unchanged store returns the same result, as does every other list call.
C9_ListReadOnly ==
    [][last'.op = "list" =>
          /\ buckets' = buckets
          /\ files' = files
          /\ \A bucket \in BucketNames, options \in ListCalls :
                list(buckets', files', bucket, options) = list(buckets, files, bucket, options)
      ]_vars

\* a list call has just returned from a store whose objects are not in order of name
C9_Witness ==
    /\ last.op = "list" /\ last.err = "OK"
    /\ Len(files) = 2
    /\ StrLess(files[2].val.info.name, files[1].val.info.name)
    /\ files[1].val.info.bucket = files[2].val.info.bucket
    /\ files[1].val.info.size = files[2].val.info.size

\* C10: when the adapter's capabilities have files.signedUrls = false, the service's
\* getSignedUrl fails with SIGNED_URLS_NOT_SUPPORTED for every bucket, path and options,
\* and the adapter's getSignedUrl is not invoked.
C10_SignedUrlsNotSupported ==
    (Idle /\ ~adapter.caps.files.signedUrls) =>
    \A bucket \in BucketNames, path \in Paths, options \in SignedUrlOptionSet, now \in Nows :
        LET r == svcGetSignedUrl(adapter.caps, files, bucket, path, options, now)
        IN  /\ r.err = Err("SIGNED_URLS_NOT_SUPPORTED", 400)
            /\ ~r.delegated
            /\ r.res = {}

\* the service has just refused a signed URL for an object that is stored
C10_Witness ==
    /\ last.op = "getSignedUrl" /\ last.via = "service"
    /\ last.err = "SIGNED_URLS_NOT_SUPPORTED"
    /\ ~adapter.caps.files.signedUrls
    /\ \E t \in Targets : getFileInfo(files, t[1], t[2]) # {}

\* C11: the service's upload fails with FILE_TOO_LARGE exactly when the payload's byte
\* length is greater than capabilities.files.maxSizeBytes (a payload of exactly
\* maxSizeBytes is not refused for its size); on that failure the adapter is not invoked
\* and the object map is unchanged; every stored object has size <= maxSizeBytes.
C11_FileTooLarge ==
    Idle =>
    /\ \A bucket \in BucketNames, path \in Paths, file \in FileInputs,
          options \in UploadOptionSet, now \in Nows :
           LET r == svcUpload(adapter.caps, buckets, files, bucket, path, file, options,
                              now, FreshId)
               tooLarge == Len(file.bytes) > adapter.caps.files.maxSizeBytes
           IN  /\ (r.err = Err("FILE_TOO_LARGE", 413)) <=> tooLarge
               /\ tooLarge => ~r.delegated /\ r.files = files /\ r.res = {}
    /\ \A i \in 1..Len(files) :
           /\ files[i].val.info.size <= adapter.caps.files.maxSizeBytes
           /\ files[i].val.info.size = Len(files[i].val.data)

\* the service has just refused a payload for its size while it stores an object of
\* exactly maxSizeBytes
C11_Witness ==
    /\ last.op = "upload" /\ last.via = "service" /\ last.err = "FILE_TOO_LARGE"
    /\ \E i \in 1..Len(files) : files[i].val.info.size = adapter.caps.files.maxSizeBytes

\* C12: when any path of the list is missing, delete(bucket, paths) fails with
\* FILE_NOT_FOUND and leaves the object map exactly as it was.
C12_DeleteAtomic ==
    Idle =>
    \A bucket \in BucketNames, paths \in PathLists :
        (\E i \in 1..Len(paths) : getFileInfo(files, bucket, paths[i]) = {}) =>
            LET r == delete(files, bucket, paths)
            IN  r.err = Err("FILE_NOT_FOUND", 404) /\ r.files = files

\* the positions of `paths` at which delete finds nothing: the path is not stored, or
\* it occurs earlier in the list
FailurePoints(bucket, paths) ==
    {i \in 1..Len(paths) :
        \/ getFileInfo(files, bucket, paths[i]) = {}
        \/ \E j \in 1..(i - 1) : paths[j] = paths[i]}

\* the object map without the keys of paths[1..n] in `bucket`
Without(bucket, paths, n) ==
    SelectSeq(files, LAMBDA e : \A j \in 1..n : e.key # Key(bucket, paths[j]))

\* C13: delete(bucket, paths) takes the paths in list order and fails with FILE_NOT_FOUND
\* at the first one that is missing when it is reached (a repeated path is missing at
\* its second occurrence); exactly the paths before that point are removed and none
\* after it; when every path is present and distinct, exactly the listed paths are
\* removed.
C13_DeleteInOrder ==
    Idle =>
    \A bucket \in BucketNames, paths \in PathLists :
        LET r == delete(files, bucket, paths)
            fail == FailurePoints(bucket, paths)
        IN  IF fail = {}
            THEN r.err = Ok /\ r.files = Without(bucket, paths, Len(paths))
            ELSE LET k == CHOOSE i \in fail : \A j \in fail : i <= j
                 IN  /\ r.err = Err("FILE_NOT_FOUND", 404)
                     /\ r.files = Without(bucket, paths, k - 1)
                     /\ \A j \in (k + 1)..Len(paths) :
                           (\A h \in 1..(k - 1) : paths[h] # paths[j]) =>
                               getFileInfo(r.files, bucket, paths[j])
                                   = getFileInfo(files, bucket, paths[j])

\* a delete has just failed with FILE_NOT_FOUND and an object is still stored
C13_Witness ==
    /\ last.op = "delete" /\ last.err = "FILE_NOT_FOUND"
    /\ Len(files) = 1 /\ nextId = 2

\* C14: an upload with upsert = true to a (bucket, path) at which a record is stored
\* succeeds, leaves at (bucket, path) the bytes, size, mimeType and metadata of the new
\* upload with the createdAt of the record that was there and updatedAt = the time of
\* the overwrite, and does not change the number of stored objects.
C14_UpsertOverwrites ==
    Idle =>
    \A bucket \in BucketNames, path \in Paths, file \in FileInputs,
       options \in UploadOptionSet, now \in Nows :
        \A old \in {r \in RecordsOf(bucket) : r.path = path} :
            options.upsert = {TRUE} =>
                LET r == upload(buckets, files, bucket, path, file, options, now, FreshId)
                    at == getFileInfo(r.files, bucket, path)
                IN  /\ r.err = Ok
                    /\ at # {}
                    /\ \A d \in at :
                          /\ d.size = Len(file.bytes)
                          /\ d.mimeType = uploadMimeType(file, options)
                          /\ d.metadata = options.metadata
                          /\ d.createdAt = old.createdAt
                          /\ d.updatedAt = now
                    /\ Bytes(download(r.files, bucket, path)) = file.bytes
                    /\ Len(r.files) = Len(files)

\* C15: the id found at (bucket, path) is unchanged by an upsert overwrite of that
\* (bucket, path), and a move carries the id of its source to its destination.
C15_StableId ==
    Idle =>
    /\ \A bucket \in BucketNames, path \in Paths, file \in FileInputs,
          options \in UploadOptionSet, now \in Nows :
           \A old \in getFileInfo(files, bucket, path) :
               LET r == upload(buckets, files, bucket, path, file, options, now, FreshId)
               IN  r.err = Ok =>
                       \A d \in getFileInfo(r.files, bucket, path) : d.id = old.id
    /\ \A bucket \in BucketNames, a \in Paths, b \in Paths, now \in Nows :
           \A old \in getFileInfo(files, bucket, a) :
               LET r == move(files, bucket, a, b, now)
               IN  r.err = Ok =>
                       \A d \in getFileInfo(r.files, bucket, b) : d.id = old.id

\* options?: { public?: boolean }
PublicOptions == {{}, {TRUE}, {FALSE}}

\* C16: createBucket(name) on a name that is taken fails with BUCKET_EXISTS and leaves
\* the bucket map as it was; on a free name it adds exactly one bucket, of that name,
\* whose public flag is the requested one and false when none is requested, and
\* leaves the other buckets as they were; no createBucket call changes the object map.
C16_BucketNamesUnique ==
    /\ [](Idle =>
          \A name \in BucketNames, public \in PublicOptions, now \in Nows :
              LET r == createBucket(buckets, name, public, now)
              IN  IF getBucket(buckets, name) # {}
                  THEN /\ r.err = Err("BUCKET_EXISTS", 409)
                       /\ r.buckets = buckets
                       /\ r.res = {}
                  ELSE /\ r.err = Ok
                       /\ Len(r.buckets) = Len(buckets) + 1
                       /\ r.res # {} /\ getBucket(r.buckets, name) = r.res
                       /\ \A b \in r.res : b.name = name /\ b.public = (public = {TRUE})
                       /\ \A other \in BucketNames \ {name} :
                             getBucket(r.buckets, other) = getBucket(buckets, other))
    /\ [][last'.op = "createBucket" => files' = files]_vars

\* a createBucket on a taken name has just been refused while objects are stored
C16_Witness ==
    /\ last.op = "createBucket" /\ last.err = "BUCKET_EXISTS"
    /\ files # <<>>
    /\ \E i \in 1..Len(buckets) : buckets[i].val.public

\* C17: an upload to a bucket that does not exist fails with BUCKET_NOT_FOUND, with or
\* without upsert and whatever is found at the key, and stores nothing.
C17_UploadBucketNotFound ==
    Idle =>
    \A bucket \in BucketNames, path \in Paths, file \in FileInputs,
       options \in UploadOptionSet, now \in Nows :
        getBucket(buckets, bucket) = {} =>
            LET r == upload(buckets, files, bucket, path, file, options, now, FreshId)
            IN  /\ uploadCheck(buckets, files, bucket, path, options)
                       = Err("BUCKET_NOT_FOUND", 404)
                /\ r.err = Err("BUCKET_NOT_FOUND", 404)
                /\ r.files = files
                /\ r.res = {}

\* an upload has just been refused for its bucket, at a key under which an object is
\* stored
C17_Witness ==
    /\ last.op = "upload" /\ last.err = "BUCKET_NOT_FOUND"
    /\ \E t \in Targets : getBucket(buckets, t[1]) = {} /\ getFileInfo(files, t[1], t[2]) # {}

\* C18: an upload without upsert that was suspended at its await completes successfully
\* only if nothing is found at its (bucket, path) when it completes: of two such
\* uploads in flight to one (bucket, path) at most one succeeds, and none replaces an
\* object that another upload has written.
C18_UploadsAtomic ==
    [][\A i \in 1..Len(pending) :
          ( /\ pending' = SubSeq(pending, 1, i - 1) \o SubSeq(pending, i + 1, Len(pending))
            /\ last'.op = "upload" /\ last'.err = "OK"
            /\ NonUpsert(pending[i].options) )
          => getFileInfo(files, pending[i].bucket, pending[i].path) = {}
      ]_vars

\* C19: the service's createBucket fails with PUBLIC_BUCKETS_NOT_SUPPORTED when a
\* public bucket is requested and capabilities.buckets.public is false, and with
\* PRIVATE_BUCKETS_NOT_SUPPORTED when a private bucket is requested (public omitted or
\* false) and capabilities.buckets.private is false; in both cases the adapter is not
\* invoked and the bucket map is unchanged; otherwise the outcome is the adapter's.
C19_BucketKindSupported ==
    Idle =>
    \A name \in BucketNames, public \in PublicOptions, now \in Nows :
        LET r == svcCreateBucket(adapter.caps, buckets, name, public, now)
            direct == createBucket(buckets, name, public, now)
        IN  IF public = {TRUE} /\ ~adapter.caps.buckets.public
            THEN /\ r.err = Err("PUBLIC_BUCKETS_NOT_SUPPORTED", 400)
                 /\ ~r.delegated /\ r.buckets = buckets /\ r.res = {}
            ELSE IF public # {TRUE} /\ ~adapter.caps.buckets.private
            THEN /\ r.err = Err("PRIVATE_BUCKETS_NOT_SUPPORTED", 400)
                 /\ ~r.delegated /\ r.buckets = buckets /\ r.res = {}
            ELSE /\ r.delegated
                 /\ r.err = direct.err /\ r.buckets = direct.buckets /\ r.res = direct.res

\* the service has just refused a bucket that is private by default
C19_Witness ==
    /\ last.op = "createBucket" /\ last.via = "service"
    /\ last.err = "PRIVATE_BUCKETS_NOT_SUPPORTED"
    /\ ~adapter.caps.buckets.private
    /\ buckets # <<>>

\* C20: the service's upload of a payload within the size limit fails with
\* MIME_TYPE_NOT_ALLOWED exactly when a contentType is given and allowedMimeTypes is a
\* fixed set that does not contain it; a payload over the limit fails with
\* FILE_TOO_LARGE whatever its type; on either rejection the adapter is not invoked.
C20_MimeTypeAllowed ==
    Idle =>
    \A bucket \in BucketNames, path \in Paths, file \in FileInputs,
       options \in UploadOptionSet, now \in Nows :
        LET r == svcUpload(adapter.caps, buckets, files, bucket, path, file, options,
                           now, FreshId)
            allowed == adapter.caps.files.allowedMimeTypes
            refused == /\ options.contentType # {}
                       /\ ~allowed.any
                       /\ \A t \in options.contentType : t \notin allowed.types
        IN  IF Len(file.bytes) > adapter.caps.files.maxSizeBytes
            THEN r.err = Err("FILE_TOO_LARGE", 413) /\ ~r.delegated
            ELSE /\ (r.err = Err("MIME_TYPE_NOT_ALLOWED", 400)) <=> refused
                 /\ refused => ~r.delegated /\ r.files = files

\* C21: the service's getSignedUrl, with signed URLs supported, fails with
\* EXPIRY_TOO_LONG exactly when expiresIn is greater than signedUrlMaxAge; the checks
\* run in the order signedUrls, expiry, transform, each before the adapter is invoked,
\* and only a call that passes all three has the adapter's outcome.
C21_ExpiryTooLong ==
    Idle =>
    \A bucket \in BucketNames, path \in Paths, options \in SignedUrlOptionSet, now \in Nows :
        LET r == svcGetSignedUrl(adapter.caps, files, bucket, path, options, now)
            direct == getSignedUrl(files, bucket, path, options, now)
            caps == adapter.caps.files
        IN  /\ caps.signedUrls =>
                  ((r.err = Err("EXPIRY_TOO_LONG", 400))
                       <=> options.expiresIn > caps.signedUrlMaxAge)
            /\ IF ~caps.signedUrls
               THEN r.err = Err("SIGNED_URLS_NOT_SUPPORTED", 400) /\ ~r.delegated
               ELSE IF options.expiresIn > caps.signedUrlMaxAge
               THEN r.err = Err("EXPIRY_TOO_LONG", 400) /\ ~r.delegated
               ELSE IF options.transform # {} /\ ~caps.transformations
               THEN r.err = Err("TRANSFORMATIONS_NOT_SUPPORTED", 400) /\ ~r.delegated
               ELSE r.delegated /\ r.err = direct.err /\ r.res = direct.res

\* the service has just refused an expiry over the ceiling for a file that is missing
C21_Witness ==
    /\ last.op = "getSignedUrl" /\ last.via = "service"
    /\ last.err = "EXPIRY_TOO_LONG"
    /\ adapter.caps.files.signedUrls
    /\ buckets # <<>> /\ files = <<>>

\* C22: the service's getPublicUrl fails with PUBLIC_URLS_NOT_SUPPORTED when
\* capabilities.files.publicUrls is false, with or without a transform, and with
\* TRANSFORMATIONS_NOT_SUPPORTED when publicUrls is true, a transform is requested and
\* transformations is false; the adapter is invoked only otherwise; around the
\* in-memory adapter every call that carries a transform is refused.
C22_PublicUrlChecks ==
    Idle =>
    \A bucket \in BucketNames, path \in Paths, options \in PublicUrlOptionSet :
        LET r == svcGetPublicUrl(adapter.caps, bucket, path, options)
            direct == getPublicUrl(bucket, path, options)
            caps == adapter.caps.files
        IN  /\ IF ~caps.publicUrls
               THEN r.err = Err("PUBLIC_URLS_NOT_SUPPORTED", 400) /\ ~r.delegated
               ELSE IF options.transform # {} /\ ~caps.transformations
               THEN r.err = Err("TRANSFORMATIONS_NOT_SUPPORTED", 400) /\ ~r.delegated
               ELSE r.delegated /\ r.err = direct.err /\ r.res = direct.res
            /\ (adapter.caps = MemoryCapabilities /\ options.transform # {}) =>
                   r.err = Err("TRANSFORMATIONS_NOT_SUPPORTED", 400) /\ ~r.delegated

\* the service around the in-memory adapter has just refused a transform
C22_Witness ==
    /\ last.op = "getPublicUrl" /\ last.via = "service"
    /\ last.err = "TRANSFORMATIONS_NOT_SUPPORTED"
    /\ adapter.caps = MemoryCapabilities
    /\ files # <<>>

\* C23: the service's createSignedUploadUrl fails with SIGNED_UPLOAD_URL_NOT_SUPPORTED
\* exactly when the adapter does not implement the optional operation; when it does,
\* the adapter is invoked and its result or error is the outcome of the call.
C23_SignedUploadUrlOptional ==
    Idle =>
    \A bucket \in BucketNames, path \in Paths, options \in SignedUploadUrlOptionSet,
       now \in Nows :
        LET r == svcCreateSignedUploadUrl(adapter, buckets, bucket, path, options, now)
            direct == createSignedUploadUrl(buckets, bucket, path, options, now)
        IN  /\ (r.err = Err("SIGNED_UPLOAD_URL_NOT_SUPPORTED", 400))
                   <=> ~adapter.signedUploadUrl
            /\ ~adapter.signedUploadUrl => ~r.delegated /\ r.res = {}
            /\ adapter.signedUploadUrl =>
                   r.delegated /\ r.err = direct.err /\ r.res = direct.res

\* the service has just refused a signed upload URL around an adapter that supports
\* signed URLs but lacks the optional operation
C23_Witness ==
    /\ last.op = "createSignedUploadUrl" /\ last.via = "service"
    /\ last.err = "SIGNED_UPLOAD_URL_NOT_SUPPORTED"
    /\ ~adapter.signedUploadUrl /\ adapter.caps.files.signedUrls
    /\ buckets # <<>>

\* C24: the service's delete(bucket, p) with a single path p has the outcome and the
\* resulting object map of delete(bucket, [p]); a sequence argument reaches the
\* adapter with the same paths in the same order; the adapter is always given a
\* sequence of paths.
C24_DeleteNormalizes ==
    Idle =>
    \A bucket \in BucketNames :
        /\ \A p \in Paths :
              /\ svcPathArray([isArray |-> FALSE, value |-> p]) = <<p>>
              /\ svcDelete(files, bucket, [isArray |-> FALSE, value |-> p])
                     = svcDelete(files, bucket, [isArray |-> TRUE, value |-> <<p>>])
              /\ svcDelete(files, bucket, [isArray |-> FALSE, value |-> p])
                     = delete(files, bucket, <<p>>)
        /\ \A ps \in PathLists :
              /\ svcPathArray([isArray |-> TRUE, value |-> ps]) = ps
              /\ svcDelete(files, bucket, [isArray |-> TRUE, value |-> ps])
                     = delete(files, bucket, ps)

\* the service has just deleted everything that was stored
C24_Witness ==
    /\ last.op = "delete" /\ last.via = "service" /\ last.err = "OK"
    /\ files = <<>> /\ nextId > 0

\* C25: the service's getBucket, listBuckets, deleteBucket, download, getFileInfo, list,
\* move and copy have the result or error, and the resulting maps, of the adapter's
\* operation on the same arguments; so have createBucket, upload, getPublicUrl and
\* getSignedUrl whenever their capability checks pass.
C25_ServiceTransparent ==
    Idle =>
    /\ \A name \in BucketNames :
          /\ svcGetBucket(buckets, name) = getBucket(buckets, name)
          /\ svcDeleteBucket(buckets, files, name) = deleteBucket(buckets, files, name)
          /\ \A public \in PublicOptions, now \in Nows :
                svcCreateBucketCheck(adapter.caps, public) = Ok =>
                    LET r == svcCreateBucket(adapter.caps, buckets, name, public, now)
                        direct == createBucket(buckets, name, public, now)
                    IN  /\ r.delegated
                        /\ r.err = direct.err /\ r.res = direct.res
                        /\ r.buckets = direct.buckets
    /\ svcListBuckets(buckets) = listBuckets(buckets)
    /\ \A bucket \in BucketNames, path \in Paths :
          /\ svcDownload(files, bucket, path) = download(files, bucket, path)
          /\ svcGetFileInfo(files, bucket, path) = getFileInfo(files, bucket, path)
          /\ \A toPath \in Paths, now \in Nows :
                /\ svcMove(files, bucket, path, toPath, now)
                       = move(files, bucket, path, toPath, now)
                /\ svcCopy(files, bucket, path, toPath, now, FreshId)
                       = copy(files, bucket, path, toPath, now, FreshId)
          /\ \A file \in FileInputs, options \in UploadOptionSet, now \in Nows :
                svcUploadCheck(adapter.caps, file, options) = Ok =>
                    LET r == svcUpload(adapter.caps, buckets, files, bucket, path, file,
                                       options, now, FreshId)
                        direct == upload(buckets, files, bucket, path, file, options,
                                         now, FreshId)
                    IN  /\ r.delegated
                        /\ r.err = direct.err /\ r.res = direct.res
                        /\ r.files = direct.files
          /\ \A options \in PublicUrlOptionSet :
                svcGetPublicUrlCheck(adapter.caps, options) = Ok =>
                    LET r == svcGetPublicUrl(adapter.caps, bucket, path, options)
                        direct == getPublicUrl(bucket, path, options)
                    IN  r.delegated /\ r.err = direct.err /\ r.res = direct.res
          /\ \A options \in SignedUrlOptionSet, now \in Nows :
                svcGetSignedUrlCheck(adapter.caps, options) = Ok =>
                    LET r == svcGetSignedUrl(adapter.caps, files, bucket, path, options, now)
                        direct == getSignedUrl(files, bucket, path, options, now)
                    IN  r.delegated /\ r.err = direct.err /\ r.res = direct.res
    /\ \A bucket \in BucketNames, options \in ListCalls :
          svcList(buckets, files, bucket, options) = list(buckets, files, bucket, options)

\* an upload that passed the service's checks has just failed with the adapter's error
C25_Witness ==
    /\ last.op = "upload" /\ last.via = "service" /\ last.err = "FILE_EXISTS"
    /\ adapter.caps.provider # "memory"
    /\ files # <<>>

\* C26: whenever the in-memory adapter refuses createBucket, deleteBucket, download,
\* move or copy for a violated precondition, the Supabase adapter, its backend
\* refusing the same call, raises the same error code.
C26_SameErrorCodes ==
    Idle =>
    /\ \A name \in BucketNames, public \in PublicOptions, now \in Nows :
          /\ createBucket(buckets, name, public, now).err # Ok
                => supabaseCreateBucket(TRUE).code
                       = createBucket(buckets, name, public, now).err.code
          /\ deleteBucket(buckets, files, name).err # Ok
                => supabaseDeleteBucket(TRUE).code
                       = deleteBucket(buckets, files, name).err.code
    /\ \A bucket \in BucketNames, path \in Paths :
          /\ download(files, bucket, path).err # Ok
                => supabaseDownload(TRUE).code = download(files, bucket, path).err.code
          /\ \A toPath \in Paths, now \in Nows, info \in BOOLEAN :
                /\ move(files, bucket, path, toPath, now).err # Ok
                      => supabaseMove(TRUE, info).code
                             = move(files, bucket, path, toPath, now).err.code
                /\ copy(files, bucket, path, toPath, now, FreshId).err # Ok
                      => supabaseCopy(TRUE, info).code
                             = copy(files, bucket, path, toPath, now, FreshId).err.code

\* C27: list of an existing bucket with a prefix returns exactly the stored records
\* of that bucket whose path starts with the prefix, and none of another bucket;
\* list of a missing bucket fails with BUCKET_NOT_FOUND.
C27_ListMatchesBucketAndPrefix ==
    Idle =>
    \A bucket \in BucketNames, prefix \in Prefixes :
        LET options == [prefix |-> prefix, limit |-> {}, offset |-> {}, sortBy |-> {}]
            r == list(buckets, files, bucket, options)
            page == CHOOSE res \in r.res : TRUE
        IN  IF MapHas(buckets, bucket)
            THEN /\ r.err = Ok
                 /\ {page.files[i] : i \in 1..Len(page.files)}
                       = {f \in RecordsOf(bucket) : StartsWith(f.path, OrElse(prefix, <<>>))}
            ELSE r.err.code = "BUCKET_NOT_FOUND"

\* what getFileInfo and download show of the object at a (bucket, path) pair
Observed(fs, pair) ==
    [info |-> getFileInfo(fs, pair[1], pair[2]), blob |-> download(fs, pair[1], pair[2])]

\* C28: an upload (upsert or not), delete, move or copy addressed to (B1, p1) leaves
\* what getFileInfo and download show at every other (bucket, path) pair as it was,
\* the destination of the move or copy excepted, bucket names with '/' included.
C28_PairsIndependent ==
    Idle =>
    \A B1 \in BucketNames, p1 \in Paths :
    \A other \in (BucketNames \X Paths) \ {<<B1, p1>>} :
        /\ \A call \in UploadCalls, now \in Nows :
              Observed(upload(buckets, files, B1, p1, call.file, call.options,
                              now, FreshId).files, other)
                  = Observed(files, other)
        /\ Observed(delete(files, B1, <<p1>>).files, other) = Observed(files, other)
        /\ \A toPath \in Paths, now \in Nows :
              other # <<B1, toPath>> =>
                  /\ Observed(move(files, B1, p1, toPath, now).files, other)
                         = Observed(files, other)
                  /\ Observed(copy(files, B1, p1, toPath, now, FreshId).files, other)
                         = Observed(files, other)

\* C29: in every reachable state, the states left by an upload that was suspended
\* while its bucket was deleted included, the bucket of every stored record exists.
C29_NoOrphanObjects ==
    \A r \in Records : MapHas(buckets, r.bucket)

\* where a record stands in a sequence of distinct records
Position(s, x) == CHOOSE i \in 1..Len(s) : s[i] = x

\* the calls with which the order of the listing is examined: no pagination
OrderOptionSet == {o \in ListOptionSet : o.limit = {} /\ o.offset = {}}

\* C30: without pagination, two listed records that are equal in the sort column stand
\* in the order in which the store's iteration met them, for "asc" and for "desc";
\* without sortBy the listing is the matched records in that order.
C30_SortStable ==
    Idle =>
    \A bucket \in BucketNames, options \in OrderOptionSet :
        LET r == list(buckets, files, bucket, options)
            matched == listMatch(files, listPrefix(bucket, options))
        IN  r.err = Ok =>
                \A page \in r.res :
                    LET out == page.files
                    IN  /\ options.sortBy = {} => out = matched
                        /\ \A sortBy \in options.sortBy :
                           \A i, j \in 1..Len(out) :
                              (/\ i < j
                               /\ ~ColumnLess(sortBy.column, out[i], out[j])
                               /\ ~ColumnLess(sortBy.column, out[j], out[i]))
                                  => Position(matched, out[i]) < Position(matched, out[j])

\* a list call has just returned from a bucket that stores two objects of the same
\* name, created at the same time
C30_Witness ==
    /\ last.op = "list" /\ last.err = "OK"
    /\ Len(files) = 2
    /\ files[1].val.info.bucket = files[2].val.info.bucket
    /\ files[1].val.info.name = files[2].val.info.name
    /\ files[1].val.info.createdAt = files[2].val.info.createdAt
    /\ MapHas(buckets, files[1].val.info.bucket)

\* C31: behind the service the number of existing buckets never exceeds
\* capabilities.buckets.maxBuckets, and a createBucket on a full store is rejected
\* and creates nothing.
C31_MaxBucketsEnforced ==
    /\ Len(buckets) <= adapter.caps.buckets.maxBuckets
    /\ Idle =>
          \A name \in BucketNames, public \in PublicOptions, now \in Nows :
              Len(buckets) >= adapter.caps.buckets.maxBuckets =>
                  LET r == svcCreateBucket(adapter.caps, buckets, name, public, now)
                  IN  r.err # Ok /\ r.buckets = buckets

\* C32: behind a service whose adapter declares a fixed set of allowed MIME types,
\* the mimeType of every stored record is a member of that set.
C32_StoredMimeTypeAllowed ==
    ~adapter.caps.files.allowedMimeTypes.any =>
        \A r \in Records : r.mimeType \in adapter.caps.files.allowedMimeTypes.types

\* the entry a backend holds for a stored record
BackendEntry(r) ==
    [id |-> {r.id}, name |-> r.name, size |-> r.size, mimetype |-> r.mimeType,
     created_at |-> r.createdAt, updated_at |-> r.updatedAt]

\* what a backend that returns exactly the requested slice answers
BackendSlice(bucket, options) ==
    LET all == Listing(bucket, options)
        page == slice(all, OrElse(options.offset, 0),
                      OrElse(options.offset, 0) + OrElse(options.limit, 100))
    IN  [i \in 1..Len(page) |-> BackendEntry(page[i])]

\* C33: over a backend that returns exactly the requested slice, the hasMore of the
\* Supabase adapter's list is true exactly when offset + limit < the number of
\* matching entries, which is the value the in-memory adapter computes.
C33_SupabaseHasMore ==
    Idle =>
    \A bucket \in BucketNames, options \in PageOptionSet :
        MapHas(buckets, bucket) =>
            LET r == supabaseList(bucket, options, FALSE, BackendSlice(bucket, options))
                reference == list(buckets, files, bucket, options)
                total == Len(Listing(bucket, options))
            IN  \A page \in r.res, ref \in reference.res :
                    /\ page.hasMore
                           = (OrElse(options.offset, 0) + OrElse(options.limit, 100) < total)
                    /\ page.hasMore = ref.hasMore

\* C34: in every reachable state, a record that getFileInfo(b, p) returns has bucket b,
\* path p, the last '/'-separated segment of p as its name, and the byte length of
\* what download(b, p) returns as its size.
C34_RecordMatchesLocation ==
    \A b \in BucketNames, p \in Paths :
        \A r \in getFileInfo(files, b, p) :
            /\ r.bucket = b
            /\ r.path = p
            /\ r.name = BaseName(p)
            /\ \A blob \in download(files, b, p).res : r.size = Len(blob.bytes)

\* C35: every stored record has createdAt <= updatedAt, and across every step a record
\* that stays under its key (an upsert overwrite included) or keeps its id (a move)
\* keeps its createdAt and has an updatedAt that is not earlier than before.
C35_TimestampsOrdered ==
    /\ [](\A r \in Records : r.createdAt <= r.updatedAt)
    /\ [][\A i \in 1..Len(files), j \in 1..Len(files') :
              (\/ files[i].key = files'[j].key
               \/ files[i].val.info.id = files'[j].val.info.id)
                  => /\ files'[j].val.info.createdAt = files[i].val.info.createdAt
                     /\ files'[j].val.info.updatedAt >= files[i].val.info.updatedAt
      ]_vars

\* an upsert has just overwritten the only stored object at a later reading of the clock
C35_Witness ==
    /\ last.op = "upload" /\ last.err = "OK"
    /\ Len(files) = 1
    /\ files[1].val.info.createdAt < files[1].val.info.updatedAt

\* the page sizes with which paging is examined
PageSizes == {1, 2, 3}

\* the list call for the page of size L at `offset`
PageOptions(prefix, sortBy, L, offset) ==
    [prefix |-> prefix, limit |-> {L}, offset |-> {offset}, sortBy |-> sortBy]

\* the pages at offset, offset + L, ... up to and including the first whose hasMore
\* is false
RECURSIVE PagesFrom(_, _, _, _, _)
PagesFrom(bucket, prefix, sortBy, L, offset) ==
    LET r == list(buckets, files, bucket, PageOptions(prefix, sortBy, L, offset))
        page == CHOOSE res \in r.res : TRUE
    IN  IF page.hasMore
        THEN <<page>> \o PagesFrom(bucket, prefix, sortBy, L, offset + L)
        ELSE <<page>>

\* the files of a sequence of pages, one page after the other
RECURSIVE Concat(_)
Concat(pages) ==
    IF pages = <<>> THEN <<>> ELSE Head(pages).files \o Concat(Tail(pages))

\* C36: for an existing bucket, a prefix, a sortBy and a limit L >= 1, the pages at
\* offsets 0, L, 2L, ... up to the first whose hasMore is false, put one after the
\* other, are the unpaginated listing; every page before the last has L files and
\* hasMore true.
C36_PagesPartition ==
    Idle =>
    \A bucket \in BucketNames, prefix \in Prefixes, sortBy \in SortBys, L \in PageSizes :
        MapHas(buckets, bucket) =>
            LET pages == PagesFrom(bucket, prefix, sortBy, L, 0)
                whole == list(buckets, files, bucket,
                              [prefix |-> prefix, limit |-> {}, offset |-> {},
                               sortBy |-> sortBy])
            IN  /\ \A all \in whole.res : Concat(pages) = all.files
                /\ \A k \in 1..(Len(pages) - 1) :
                      Len(pages[k].files) = L /\ pages[k].hasMore
                /\ ~pages[Len(pages)].hasMore

\* a list call has just returned from the existing bucket "a", which holds two objects
\* of different names: a listing of two pages of size 1
C36_Witness ==
    /\ last.op = "list" /\ last.err = "OK"
    /\ MapHas(buckets, <<"a">>)
    /\ Len(listMatch(files, <<"a", Slash>>)) = 2
    /\ files[1].val.info.name # files[2].val.info.name

\* the call that a step has completed
Done(op) == last'.op = op /\ last'.err = "OK"
Failed(op) == last'.op = op /\ last'.err # "OK"

\* C37: every move, copy, delete and deleteBucket of the in-memory adapter is one step,
\* also while an upload is suspended: the step leads from a state in which the
\* operation's checks hold to the state with its whole effect, so that no call sees a
\* moved object at both keys or at neither; no suspended upload resumes within it, and
\* a refused move, copy or deleteBucket changes nothing.
C37_AtomicSteps ==
    [][/\ (Done("move") \/ Done("copy") \/ Done("delete") \/ Done("deleteBucket")
             \/ Failed("move") \/ Failed("copy") \/ Failed("delete")
             \/ Failed("deleteBucket"))
          => pending' = pending
       /\ (Failed("move") \/ Failed("copy") \/ Failed("deleteBucket"))
          => files' = files /\ buckets' = buckets
       /\ Done("move") =>
             /\ buckets' = buckets
             /\ \E from \in MapKeys(files), to \in MapKeys(files') :
                   /\ ~MapHas(files, to) /\ ~MapHas(files', from)
                   /\ MapKeys(files') = (MapKeys(files) \ {from}) \cup {to}
                   /\ MapGet(files', to).data = MapGet(files, from).data
                   /\ \A k \in MapKeys(files) \ {from} : MapGet(files', k) = MapGet(files, k)
       /\ Done("copy") =>
             /\ buckets' = buckets
             /\ \E from \in MapKeys(files), to \in MapKeys(files') :
                   /\ ~MapHas(files, to)
                   /\ MapKeys(files') = MapKeys(files) \cup {to}
                   /\ MapGet(files', to).data = MapGet(files, from).data
                   /\ \A k \in MapKeys(files) : MapGet(files', k) = MapGet(files, k)
       /\ Done("delete") =>
             /\ buckets' = buckets
             /\ MapKeys(files') \subseteq MapKeys(files)
             /\ \A k \in MapKeys(files') : MapGet(files', k) = MapGet(files, k)
       /\ Done("deleteBucket") =>
             /\ files' = files
             /\ \E name \in MapKeys(buckets) :
                   /\ ~\E key \in MapKeys(files) : StartsWith(key, name \o <<Slash>>)
                   /\ buckets' = MapDelete(buckets, name)
      ]_vars

\* a move has just succeeded while an upload is suspended at its await
C37_Witness ==
    /\ last.op = "move" /\ last.err = "OK"
    /\ pending # <<>>
    /\ files # <<>>

====
